---- MODULE Spec2Model ----
(***************************************************************************)
(* A model of DocxItemizer.py: the Itemizer, ImageFinder and Searcher      *)
(* traversals over the "Extracted Document" tree, the newline heuristic of *)
(* the text extraction, and the batch loop of main.                        *)
(*                                                                         *)
(* File names, extensions, image type names and search terms are sequences *)
(* of one-character strings, so that os.path.splitext, str.endswith and    *)
(* re.search are computed and not assumed.  A directory is the sequence of *)
(* its path components below the "Extracted Document" directory.  A file's *)
(* content is a byte string named by an identifier; what the libraries     *)
(* (imghdr, open/read, lxml) return for those bytes is tabulated below.    *)
(***************************************************************************)
EXTENDS Integers, Sequences, FiniteSets, TLC

VARIABLES
    tree,                     \* the os.walk order of the extracted files
    pc,                       \* position of the running function
    pos,                      \* index of the next entry of the traversal
    catFiles,                 \* Itemizer: category directory -> (file name -> bytes)
    contentFiles,             \* Itemizer: "Content" directory, file name -> text
    copies,                   \* Itemizer: the shutil.copy calls made, in order
    written,                  \* Itemizer: the text files written, in order
    text_in,                  \* newline heuristic: the tag-stripped text
    output,                   \* newline heuristic: the string being rewritten
    ti,                       \* newline heuristic: loop variable i
    tn,                       \* newline heuristic: end of range(len(output) - 1)
    hidden_dir,               \* ImageFinder: "Hidden Images" exists
    hiddenFiles,              \* ImageFinder: "Hidden Images", file name -> bytes
    hidden_image_file_paths,  \* ImageFinder: the returned list
    search_term,              \* Searcher: the regex
    searchFiles,              \* Searcher: regular files of "Search", name -> bytes
    unreadable_dir,           \* Searcher: "Search/Unreadable" exists
    unreadableFiles,          \* Searcher: "Search/Unreadable", name -> bytes
    found_file_names,         \* Searcher: returned lists
    found_file_contents,
    unreadable_file_contents,
    search_file_paths,
    unreadable_file_paths,
    batch,                    \* main: the files met by os.walk(path)
    attempted                 \* main: indices of the files run_docx_itemizer was called on

vars == <<tree, pc, pos, catFiles, contentFiles, copies, written, text_in, output, ti, tn,
          hidden_dir, hiddenFiles, hidden_image_file_paths, search_term, searchFiles,
          unreadable_dir, unreadableFiles, found_file_names, found_file_contents,
          unreadable_file_contents, search_file_paths, unreadable_file_paths,
          batch, attempted>>

itemizerVars == <<catFiles, contentFiles, copies, written>>
textVars == <<text_in, output, ti, tn>>
imageVars == <<hidden_dir, hiddenFiles, hidden_image_file_paths>>
searchVars == <<search_term, searchFiles, unreadable_dir, unreadableFiles,
                found_file_names, found_file_contents, unreadable_file_contents,
                search_file_paths, unreadable_file_paths>>
mainVars == <<batch, attempted>>

(***************************************************************************)
(* Bounds of the model.                                                    *)
(***************************************************************************)
MaxEntries == 3
MaxTextLen == 5

(***************************************************************************)
(* Strings and paths.                                                      *)
(***************************************************************************)
NoFiles == <<>>

Put(files, name, data) ==
    [n \in (DOMAIN files) \cup {name} |-> IF n = name THEN data ELSE files[n]]

EndsWith(s, suffix) ==
    /\ Len(suffix) <= Len(s)
    /\ SubSeq(s, Len(s) - Len(suffix) + 1, Len(s)) = suffix

\* re.search with a literal term: the term occurs somewhere in s
ReSearch(term, s) ==
    \E i \in 0..(Len(s) - Len(term)) : SubSeq(s, i + 1, i + Len(term)) = term

\* os.path.splitext: split at the last dot, unless only dots precede it
DotIndex(name) ==
    IF \E i \in 1..Len(name) : name[i] = "."
    THEN CHOOSE i \in 1..Len(name) :
            /\ name[i] = "."
            /\ \A j \in (i + 1)..Len(name) : name[j] /= "."
    ELSE 0

HasExtension(name) ==
    /\ DotIndex(name) > 0
    /\ \E j \in 1..(DotIndex(name) - 1) : name[j] /= "."

SplitRoot(name) ==
    IF HasExtension(name) THEN SubSeq(name, 1, DotIndex(name) - 1) ELSE name

SplitExt(name) ==
    IF HasExtension(name) THEN SubSeq(name, DotIndex(name), Len(name)) ELSE <<>>

\* os.path.basename of a directory of the walk
ExtractedDirName == "Extracted Document"

BaseName(dir) == IF Len(dir) = 0 THEN ExtractedDirName ELSE dir[Len(dir)]

RootDir == <<>>
WordDir == <<"word">>
WordMediaDir == <<"word", "media">>

Dirs == <<RootDir, WordDir, WordMediaDir>>

\* os.walk is top-down: a directory's files come before its sub-directories'
DirRank(dir) == CHOOSE i \in 1..Len(Dirs) : Dirs[i] = dir

\* e may come next in a walk that has produced t: its directory is not before
\* the last one, and a directory holds no two files of one name
CanFollow(t, e) ==
    \A i \in 1..Len(t) :
        /\ DirRank(t[i].dir) <= DirRank(e.dir)
        /\ (t[i].dir = e.dir => t[i].name /= e.name)

RECURSIVE WalksOfLen(_, _)
WalksOfLen(entries, n) ==
    IF n = 0 THEN { <<>> }
    ELSE { Append(p[1], p[2]) :
              p \in { q \in WalksOfLen(entries, n - 1) \X entries : CanFollow(q[1], q[2]) } }

Trees(dirs, names, datas) ==
    UNION { WalksOfLen([dir : dirs, name : names, data : datas], n) :
                n \in 0..MaxEntries }

(***************************************************************************)
(* File contents.  Each identifier names one byte string; the operators    *)
(* give what the libraries report for it.                                  *)
(***************************************************************************)
\* imghdr.what: the image type of the leading bytes, <<>> for None
ImghdrWhat(data) ==
    CASE data = "png1" -> <<"p", "n", "g">>
      [] data = "jpeg1" -> <<"j", "p", "e", "g">>
      [] OTHER -> <<>>

\* open(path, "r").read() raises UnicodeDecodeError
Undecodable(data) == data \in {"png1", "jpeg1"}

\* the decoded contents of a readable file
FileContents(data) ==
    CASE data = "doc1" -> <<"<", "a", "B", ">">>
      [] data = "bad1" -> <<"<", "a">>
      [] data = "txt1" -> <<"a", "B">>
      [] data = "txt2" -> <<"c", "c">>
      [] OTHER -> <<>>

\* et.parse raises XMLSyntaxError
NotWellFormed(data) == data /= "doc1"

\* str(transform(dom)) without the XML header: the concatenated text nodes
XmlText(data) ==
    CASE data = "doc1" -> <<"a", "B">>
      [] OTHER -> <<>>

(***************************************************************************)
(* The newline heuristic (Itemizer.itemize, the loop over the text).       *)
(***************************************************************************)
LowerChars == {"a", "c"}
UpperChars == {"B", "D"}
DigitChars == {"2"}
Newline == "\n"

IsLower(c) == c \in LowerChars
IsUpper(c) == c \in UpperChars
IsDigit(c) == c \in DigitChars

\* breaking before every uppercase letter
BreakBeforeUpper(current_char, next_char) == IsUpper(next_char)

\* the condition of the if inside the loop
BreakHere(current_char, next_char) ==
    \/ IsLower(current_char) /\ IsUpper(next_char)
    \/ IsDigit(current_char) /\ IsUpper(next_char)

\* output[:i + 1] + "\n" + output[i + 1:]
InsertNewline(out, i) ==
    SubSeq(out, 1, i + 1) \o <<Newline>> \o SubSeq(out, i + 2, Len(out))

\* one iteration of the loop, for loop variable i (0-based)
LoopBody(out, i) ==
    IF BreakHere(out[i + 1], out[i + 2]) THEN InsertNewline(out, i) ELSE out

\* range(len(output) - 1) is evaluated once, before the first iteration
RangeEnd(out) == Len(out) - 1

RECURSIVE LoopFrom(_, _, _)
LoopFrom(out, i, n) ==
    IF i >= n THEN out ELSE LoopFrom(LoopBody(out, i), i + 1, n)

AddNewlines(text) == LoopFrom(text, 0, RangeEnd(text))

(***************************************************************************)
(* Values of the variables a function does not use.                        *)
(***************************************************************************)
ItemizerIdle ==
    /\ catFiles = NoFiles
    /\ contentFiles = NoFiles
    /\ copies = <<>>
    /\ written = <<>>

TextIdle ==
    /\ text_in = <<>>
    /\ output = <<>>
    /\ ti = 0
    /\ tn = 0

ImageIdle ==
    /\ hidden_dir = FALSE
    /\ hiddenFiles = NoFiles
    /\ hidden_image_file_paths = <<>>

SearchIdle ==
    /\ search_term = <<>>
    /\ searchFiles = NoFiles
    /\ unreadable_dir = FALSE
    /\ unreadableFiles = NoFiles
    /\ found_file_names = <<>>
    /\ found_file_contents = <<>>
    /\ unreadable_file_contents = <<>>
    /\ search_file_paths = <<>>
    /\ unreadable_file_paths = <<>>

MainIdle ==
    /\ batch = <<>>
    /\ attempted = {}

(***************************************************************************)
(* The newline heuristic, one loop iteration per step.                     *)
(***************************************************************************)
TextChars == {"a", "B", "2", "-"}

Texts == UNION { [1..n -> TextChars] : n \in 0..MaxTextLen }

InitText ==
    /\ text_in \in Texts
    /\ output = text_in
    /\ ti = 0
    /\ tn = RangeEnd(text_in)
    /\ pc = "loop"
    /\ tree = <<>>
    /\ pos = 1
    /\ ItemizerIdle /\ ImageIdle /\ SearchIdle /\ MainIdle

TextLoopStep ==
    /\ pc = "loop"
    /\ ti < tn
    /\ output' = LoopBody(output, ti)
    /\ ti' = ti + 1
    /\ UNCHANGED <<tree, pc, pos, text_in, tn, itemizerVars, imageVars, searchVars, mainVars>>

TextWrite ==
    /\ pc = "loop"
    /\ ti >= tn
    /\ pc' = "written"
    /\ UNCHANGED <<tree, pos, textVars, itemizerVars, imageVars, searchVars, mainVars>>

NextText == TextLoopStep \/ TextWrite

SpecText == InitText /\ [][NextText]_vars

(***************************************************************************)
(* Itemizer.itemize                                                        *)
(***************************************************************************)
Categories == {"XML", "CSS", "Media", "RELS", "Uncategorized"}

XmlExt == <<".", "x", "m", "l">>
CssExt == <<".", "c", "s", "s">>
RelsExt == <<".", "r", "e", "l", "s">>
TxtExt == <<".", "t", "x", "t">>

\* testing the extension before the directory
ClassifyExtensionFirst(current_dir_name, file_name) ==
    IF SplitExt(file_name) = XmlExt THEN "XML"
    ELSE IF SplitExt(file_name) = CssExt THEN "CSS"
    ELSE IF SplitExt(file_name) = RelsExt THEN "RELS"
    ELSE IF current_dir_name = "media" THEN "Media"
    ELSE "Uncategorized"

\* the if / elif chain of the loop body: the directory the file is copied to
Classify(current_dir_name, file_name) ==
    IF current_dir_name = "media" THEN "Media"
    ELSE IF SplitExt(file_name) = XmlExt THEN "XML"
    ELSE IF SplitExt(file_name) = CssExt THEN "CSS"
    ELSE IF SplitExt(file_name) = RelsExt THEN "RELS"
    ELSE "Uncategorized"

\* extracting the text of every XML file, whatever its directory
ExtractsTextAnywhere(current_dir_name, file_name) ==
    Classify(current_dir_name, file_name) = "XML"

\* the XML branch goes on to the text extraction
ExtractsText(current_dir_name, file_name) ==
    /\ Classify(current_dir_name, file_name) = "XML"
    /\ current_dir_name = "word"

\* what et.parse does on a file that is not well-formed XML
ParseFailure(data) == IF NotWellFormed(data) THEN "itemize_raised" ELSE "itemize"

ItemizeNames ==
    { <<"a", ".", "x", "m", "l">>, <<"a", ".", "c", "s", "s">>,
      <<"a", ".", "x", "m", "l", ".", "r", "e", "l", "s">>, <<"a">> }

ItemizeDatas == {"doc1", "bad1"}

InitItemize ==
    /\ tree \in Trees({RootDir, WordDir, WordMediaDir}, ItemizeNames, ItemizeDatas)
    /\ pc = "itemize_start"
    /\ pos = 1
    /\ ItemizerIdle /\ TextIdle /\ ImageIdle /\ SearchIdle /\ MainIdle

\* os.mkdir of the six component directories
ItemizeStart ==
    /\ pc = "itemize_start"
    /\ catFiles' = [c \in Categories |-> NoFiles]
    /\ pc' = "itemize"
    /\ UNCHANGED <<tree, pos, contentFiles, copies, written, textVars, imageVars,
                   searchVars, mainVars>>

\* one iteration of the loops over os.walk and file_names
ItemizeEntry ==
    /\ pc = "itemize"
    /\ pos <= Len(tree)
    /\ LET e == tree[pos]
           dir_name == BaseName(e.dir)
           cat == Classify(dir_name, e.name)
       IN  /\ catFiles' = [catFiles EXCEPT ![cat] = Put(@, e.name, e.data)]
           /\ copies' = Append(copies, [src |-> pos, cat |-> cat])
           /\ IF ExtractsText(dir_name, e.name)
              THEN /\ pc' = ParseFailure(e.data)
                   /\ IF pc' = "itemize"
                      THEN /\ contentFiles' = Put(contentFiles, SplitRoot(e.name) \o TxtExt,
                                                  AddNewlines(XmlText(e.data)))
                           /\ written' = Append(written, [src |-> pos,
                                                          name |-> SplitRoot(e.name) \o TxtExt])
                           /\ pos' = pos + 1
                      ELSE UNCHANGED <<contentFiles, written, pos>>
              ELSE /\ pos' = pos + 1
                   /\ UNCHANGED <<pc, contentFiles, written>>
    /\ UNCHANGED <<tree, textVars, imageVars, searchVars, mainVars>>

ItemizeReturn ==
    /\ pc = "itemize"
    /\ pos > Len(tree)
    /\ pc' = "itemize_done"
    /\ UNCHANGED <<tree, pos, itemizerVars, textVars, imageVars, searchVars, mainVars>>

NextItemize == ItemizeStart \/ ItemizeEntry \/ ItemizeReturn

SpecItemize == InitItemize /\ [][NextItemize]_vars

(***************************************************************************)
(* Properties of the newline heuristic.                                    *)
(***************************************************************************)
\* the index in out of the k-th character that is not a newline
PosOf(out, k) ==
    CHOOSE p \in 1..Len(out) :
        /\ out[p] /= Newline
        /\ Cardinality({q \in 1..p : out[q] /= Newline}) = k

\* C3: once the loop has ended, the written text has a line break right
\* after the first character of every (lowercase, uppercase) and every
\* (digit, uppercase) pair of the tag-stripped text.
C3_BreakAtEveryPair ==
    pc = "written" =>
        \A k \in 1..(Len(text_in) - 1) :
            BreakHere(text_in[k], text_in[k + 1]) =>
                /\ PosOf(output, k) + 1 <= Len(output)
                /\ output[PosOf(output, k) + 1] = Newline

(***************************************************************************)
(* Properties of Itemizer.itemize.                                         *)
(***************************************************************************)
ItemizeEnded == pc \in {"itemize_done", "itemize_raised"}

\* the entries copied to the directory of category c
Bucket(c) == { copies[k].src : k \in { j \in 1..Len(copies) : copies[j].cat = c } }

\* C1: when itemize has ended, the five buckets cover all the entries of
\* the tree and are pairwise disjoint.
C1_TotalCoverage ==
    ItemizeEnded =>
        /\ UNION { Bucket(c) : c \in Categories } = 1..Len(tree)
        /\ \A c, d \in Categories : c /= d => Bucket(c) \cap Bucket(d) = {}

InMedia(i) == BaseName(tree[i].dir) = "media"

C7_ParseErrorContained ==
    ItemizeEnded =>
        \A i \in 1..Len(tree) :
            /\ \E c \in Categories : i \in Bucket(c)
            /\ ( /\ ExtractsText(BaseName(tree[i].dir), tree[i].name)
                 /\ NotWellFormed(tree[i].data)
                 /\ \A j \in 1..Len(tree) :
                       j /= i => SplitRoot(tree[j].name) /= SplitRoot(tree[i].name) )
               => (SplitRoot(tree[i].name) \o TxtExt) \notin DOMAIN contentFiles

\* C10: when itemize has returned, every entry has a copy holding its own
\* bytes in the directory of its category, and the extracted tree is as it
\* was.
C10_EveryEntryCopied ==
    pc = "itemize_done" =>
        \A i \in 1..Len(tree) :
            LET cat == Classify(BaseName(tree[i].dir), tree[i].name)
            IN  /\ tree[i].name \in DOMAIN catFiles[cat]
                /\ catFiles[cat][tree[i].name] = tree[i].data

(***************************************************************************)
(* The lazily created directories: "Hidden Images" and "Search/Unreadable". *)
(***************************************************************************)
\* calling os.mkdir without looking
AlwaysMkdir(exists) == TRUE

\* not os.path.isdir(path), the guard of both os.mkdir calls
NotIsDir(exists) == ~exists

\* os.mkdir raises FileExistsError when the directory exists
MkdirRaises(called, exists) == called /\ exists

\* making the directory before any image is found
CreatesHiddenDirEagerly(is_hidden, exists) == NotIsDir(exists)

\* os.mkdir is called inside the "if" of a hidden image, under its guard
CreatesHiddenDir(is_hidden, exists) == is_hidden /\ NotIsDir(exists)

\* a try without the except clause
ReadOutcomeUncaught(data) == IF Undecodable(data) THEN "raise" ELSE "read"

\* the try block: read() returns ("read") or raises UnicodeDecodeError, which
\* the except clause handles ("except"); nothing is left to propagate ("raise")
ReadOutcome(data) == IF Undecodable(data) THEN "except" ELSE "read"

(***************************************************************************)
(* ImageFinder.get_hidden_images                                           *)
(***************************************************************************)
PhotoJpg == <<"p", "h", "o", "t", "o", ".", "j", "p", "g">>
PhotoPng == <<"p", "h", "o", "t", "o", ".", "p", "n", "g">>
PhotoJpeg == <<"p", "h", "o", "t", "o", ".", "j", "p", "e", "g">>

ImageNames == {PhotoJpg, PhotoPng, PhotoJpeg}

ImageDatas == {"png1", "jpeg1", "txt1"}

\* forgetting the dot of the extension
IsHiddenImageNoDot(file_extension, file_type) ==
    file_type /= <<>> /\ file_extension /= file_type

\* file_type is not None and not file_extension.endswith(file_type)
IsHiddenImage(file_extension, file_type) ==
    file_type /= <<>> /\ ~EndsWith(file_extension, file_type)

\* base_file_name + "." + file_type
ImageFileName(file_name, file_type) == SplitRoot(file_name) \o <<".">> \o file_type

InitImages ==
    /\ tree \in Trees({WordDir, WordMediaDir}, ImageNames, ImageDatas)
    /\ pc = "images"
    /\ pos = 1
    /\ ItemizerIdle /\ TextIdle /\ ImageIdle /\ SearchIdle /\ MainIdle

\* one iteration of the loops over os.walk and file_names
ImageEntry ==
    /\ pc = "images"
    /\ pos <= Len(tree)
    /\ LET e == tree[pos]
           file_type == ImghdrWhat(e.data)
           image_file_name == ImageFileName(e.name, file_type)
           is_hidden == IsHiddenImage(SplitExt(e.name), file_type)
           mkdir == CreatesHiddenDir(is_hidden, hidden_dir)
       IN  IF MkdirRaises(mkdir, hidden_dir)
           THEN /\ pc' = "images_raised"
                /\ UNCHANGED <<pos, imageVars>>
           ELSE /\ hidden_dir' = (hidden_dir \/ mkdir)
                /\ IF is_hidden
                   THEN /\ hiddenFiles' =
                              Put(Put(hiddenFiles, e.name, e.data), image_file_name, e.data)
                        /\ hidden_image_file_paths' =
                              Append(hidden_image_file_paths,
                                     [path |-> [dir |-> e.dir, name |-> e.name],
                                      copy |-> e.name, image |-> image_file_name])
                   ELSE UNCHANGED <<hiddenFiles, hidden_image_file_paths>>
                /\ pos' = pos + 1
                /\ pc' = pc
    /\ UNCHANGED <<tree, itemizerVars, textVars, searchVars, mainVars>>

ImageReturn ==
    /\ pc = "images"
    /\ pos > Len(tree)
    /\ pc' = "images_done"
    /\ UNCHANGED <<tree, pos, itemizerVars, textVars, imageVars, searchVars, mainVars>>

NextImages == ImageEntry \/ ImageReturn

SpecImages == InitImages /\ [][NextImages]_vars

(***************************************************************************)
(* Searcher.__init__ and Searcher.find_search_term                         *)
(***************************************************************************)
SearchTermTxt ==
    <<"s", "e", "a", "r", "c", "h", "_", "t", "e", "r", "m", ".", "t", "x", "t">>

SearchNames == { <<"a", "B">>, <<"c", "c">>, SearchTermTxt }

SearchTerms == { <<"a", "B">>, <<"c">> }

SearchDatas == {"txt1", "txt2", "png1"}

\* not os.path.isfile(search_file_path)
NotInSearchDir(files, file_name) == file_name \notin DOMAIN files

InitSearch ==
    /\ tree \in Trees({WordDir, WordMediaDir}, SearchNames, SearchDatas)
    /\ search_term \in SearchTerms
    /\ pc = "search_init"
    /\ pos = 1
    /\ searchFiles = NoFiles
    /\ unreadable_dir = FALSE
    /\ unreadableFiles = NoFiles
    /\ found_file_names = <<>>
    /\ found_file_contents = <<>>
    /\ unreadable_file_contents = <<>>
    /\ search_file_paths = <<>>
    /\ unreadable_file_paths = <<>>
    /\ ItemizerIdle /\ TextIdle /\ ImageIdle /\ MainIdle

\* __init__: os.mkdir of "Search" and the write of search_term.txt
SearcherInit ==
    /\ pc = "search_init"
    /\ searchFiles' = Put(NoFiles, SearchTermTxt, "term")
    /\ pc' = "search"
    /\ UNCHANGED <<tree, pos, search_term, unreadable_dir, unreadableFiles,
                   found_file_names, found_file_contents, unreadable_file_contents,
                   search_file_paths, unreadable_file_paths,
                   itemizerVars, textVars, imageVars, mainVars>>

\* one iteration of the loops over os.walk and file_names
SearchEntry ==
    /\ pc = "search"
    /\ pos <= Len(tree)
    /\ LET e == tree[pos]
           current_file_path == [dir |-> e.dir, name |-> e.name]
           file_name_match == ReSearch(search_term, e.name)
           \* after the "if file_name_match" block
           nameCopy == file_name_match /\ NotInSearchDir(searchFiles, e.name)
           files1 == IF nameCopy THEN Put(searchFiles, e.name, e.data) ELSE searchFiles
           paths1 == IF nameCopy THEN Append(search_file_paths, e.name)
                     ELSE search_file_paths
           \* the try block
           outcome == ReadOutcome(e.data)
           file_contents_match ==
               outcome = "read" /\ ReSearch(search_term, FileContents(e.data))
           contentCopy == file_contents_match /\ NotInSearchDir(files1, e.name)
           \* the except block
           mkdir == outcome = "except" /\ NotIsDir(unreadable_dir)
           raises == outcome = "raise" \/ MkdirRaises(mkdir, unreadable_dir)
           unreadableCopy ==
               outcome = "except" /\ ~raises /\ NotInSearchDir(files1, e.name)
       IN  /\ found_file_names' =
                  IF file_name_match THEN Append(found_file_names, current_file_path)
                  ELSE found_file_names
           /\ found_file_contents' =
                  IF file_contents_match THEN Append(found_file_contents, current_file_path)
                  ELSE found_file_contents
           /\ searchFiles' = IF contentCopy THEN Put(files1, e.name, e.data) ELSE files1
           /\ search_file_paths' = IF contentCopy THEN Append(paths1, e.name) ELSE paths1
           /\ unreadable_dir' = (unreadable_dir \/ mkdir)
           /\ unreadable_file_contents' =
                  IF unreadableCopy THEN Append(unreadable_file_contents, current_file_path)
                  ELSE unreadable_file_contents
           /\ unreadable_file_paths' =
                  IF unreadableCopy THEN Append(unreadable_file_paths, e.name)
                  ELSE unreadable_file_paths
           /\ unreadableFiles' =
                  IF unreadableCopy THEN Put(unreadableFiles, e.name, e.data)
                  ELSE unreadableFiles
           /\ pc' = IF raises THEN "search_raised" ELSE pc
           /\ pos' = IF raises THEN pos ELSE pos + 1
    /\ UNCHANGED <<tree, search_term, itemizerVars, textVars, imageVars, mainVars>>

SearchReturn ==
    /\ pc = "search"
    /\ pos > Len(tree)
    /\ pc' = "search_done"
    /\ UNCHANGED <<tree, pos, itemizerVars, textVars, imageVars, searchVars, mainVars>>

NextSearch == SearcherInit \/ SearchEntry \/ SearchReturn

SpecSearch == InitSearch /\ [][NextSearch]_vars

\* either traversal that creates a directory lazily
InitLazyDirs == InitImages \/ InitSearch

NextLazyDirs == NextImages \/ NextSearch

SpecLazyDirs == InitLazyDirs /\ [][NextLazyDirs]_vars

(***************************************************************************)
(* main, on a directory: one run_docx_itemizer call per .docx file.        *)
(***************************************************************************)
MaxDocs == 3

DocxExt == <<".", "d", "o", "c", "x">>

BatchNames ==
    { <<"a", ".", "d", "o", "c", "x">>, <<"b", ".", "d", "o", "c", "x">>,
      <<"c", ".", "t", "x", "t">> }

\* "ok": a document that is itemized; "notzip": zipfile.ZipFile raises
\* BadZipFile; "partial": extractall raises part way; "badxml": a valid
\* archive whose word directory holds XML that is not well-formed
ArchiveKinds == {"ok", "notzip", "partial", "badxml"}

Batches == UNION { [1..n -> [name : BatchNames, archive : ArchiveKinds]] : n \in 0..MaxDocs }

\* Itemizer.process_doc: no statement catches what ZipFile, extractall or itemize raise
ProcessDocRaises(archive) == archive /= "ok"

InitMain ==
    /\ batch \in Batches
    /\ attempted = {}
    /\ pc = "main"
    /\ pos = 1
    /\ tree = <<>>
    /\ ItemizerIdle /\ TextIdle /\ ImageIdle /\ SearchIdle

\* one iteration of the loops over os.walk(path) and file_names
MainEntry ==
    /\ pc = "main"
    /\ pos <= Len(batch)
    /\ IF SplitExt(batch[pos].name) = DocxExt
       THEN /\ attempted' = attempted \cup {pos}
            /\ IF ProcessDocRaises(batch[pos].archive)
               THEN pc' = "main_raised" /\ pos' = pos
               ELSE pc' = pc /\ pos' = pos + 1
       ELSE /\ pos' = pos + 1
            /\ UNCHANGED <<pc, attempted>>
    /\ UNCHANGED <<tree, batch, itemizerVars, textVars, imageVars, searchVars>>

MainReturn ==
    /\ pc = "main"
    /\ pos > Len(batch)
    /\ pc' = "main_done"
    /\ UNCHANGED <<tree, pos, mainVars, itemizerVars, textVars, imageVars, searchVars>>

NextMain == MainEntry \/ MainReturn

SpecMain == InitMain /\ [][NextMain]_vars

(***************************************************************************)
(* Properties of ImageFinder.get_hidden_images.                            *)
(***************************************************************************)
PathOf(i) == [dir |-> tree[i].dir, name |-> tree[i].name]

Recorded(i) ==
    \E k \in 1..Len(hidden_image_file_paths) : hidden_image_file_paths[k].path = PathOf(i)

\* the extension is some prefix followed by the type's name
NamesType(file_extension, file_type) ==
    \E k \in 0..Len(file_extension) :
        file_extension = SubSeq(file_extension, 1, k) \o file_type

PngType == <<"p", "n", "g">>

\* C4: an entry is recorded exactly when the loop has passed it, imghdr
\* found a type and the extension does not end with the type's name; PNG
\* bytes named photo.jpg are recorded, the same bytes named photo.png are
\* not, and bytes without a signature never are.
C4_SniffMismatch ==
    \A i \in 1..Len(tree) :
        /\ Recorded(i) <=>
              /\ i < pos
              /\ ImghdrWhat(tree[i].data) /= <<>>
              /\ ~NamesType(SplitExt(tree[i].name), ImghdrWhat(tree[i].data))
        /\ (i < pos /\ tree[i].name = PhotoJpg /\ ImghdrWhat(tree[i].data) = PngType)
              => Recorded(i)
        /\ (tree[i].name = PhotoPng /\ ImghdrWhat(tree[i].data) = PngType) => ~Recorded(i)
        /\ ImghdrWhat(tree[i].data) = <<>> => ~Recorded(i)

C4_Witness ==
    /\ pc = "images_done"
    /\ \E i, j, k \in 1..Len(tree) :
          /\ tree[i].name = PhotoJpg /\ tree[i].data = "png1" /\ Recorded(i)
          /\ tree[j].name = PhotoPng /\ tree[j].data = "png1" /\ ~Recorded(j)
          /\ tree[k].data = "txt1" /\ ~Recorded(k)

\* C9: when get_hidden_images has returned, for every recorded mismatch
\* "Hidden Images" holds the entry's bytes under its file name and under
\* its base name with the type appended.
C9_TwoCopiesPerMismatch ==
    pc = "images_done" =>
        \A i \in 1..Len(tree) :
            Recorded(i) =>
                /\ tree[i].name \in DOMAIN hiddenFiles
                /\ hiddenFiles[tree[i].name] = tree[i].data
                /\ ImageFileName(tree[i].name, ImghdrWhat(tree[i].data)) \in DOMAIN hiddenFiles
                /\ hiddenFiles[ImageFileName(tree[i].name, ImghdrWhat(tree[i].data))]
                      = tree[i].data

(***************************************************************************)
(* Properties of Searcher.find_search_term.                                *)
(***************************************************************************)
InSeq(x, seq) == \E k \in 1..Len(seq) : seq[k] = x

Count(x, seq) == Cardinality({k \in 1..Len(seq) : seq[k] = x})

\* C2: a passed entry that cannot be decoded and whose name matches is in
\* the name matches with a copy in "Search", and is in the unreadable list
\* with a copy in "Search/Unreadable" listed in unreadable_file_paths.
C2_UnreadableIndependence ==
    \A i \in 1..(pos - 1) :
        (pc \in {"search", "search_done"}
           /\ Undecodable(tree[i].data) /\ ReSearch(search_term, tree[i].name))
        => /\ InSeq(PathOf(i), found_file_names)
           /\ tree[i].name \in DOMAIN searchFiles
           /\ InSeq(PathOf(i), unreadable_file_contents)
           /\ InSeq(tree[i].name, unreadable_file_paths)
           /\ tree[i].name \in DOMAIN unreadableFiles

\* no destination path is listed twice in search_file_paths
NoPathTwice ==
    \A j, k \in 1..Len(search_file_paths) :
        j /= k => search_file_paths[j] /= search_file_paths[k]

\* C5: a passed entry that matches by name and by content has its
\* destination path exactly once in search_file_paths, and no destination
\* path is listed twice.
C5_SearchDedup ==
    pc \in {"search", "search_done"} =>
        /\ \A i \in 1..(pos - 1) :
              ( /\ ReSearch(search_term, tree[i].name)
                /\ ~Undecodable(tree[i].data)
                /\ ReSearch(search_term, FileContents(tree[i].data)) )
              => Count(tree[i].name, search_file_paths) = 1
        /\ NoPathTwice

(***************************************************************************)
(* Properties of main.                                                     *)
(***************************************************************************)
\* C8: when main has ended on a directory, run_docx_itemizer has been
\* called on every .docx file of it, whatever happened to the others.
C8_BatchContinues ==
    pc \in {"main_done", "main_raised"} =>
        \A i \in 1..Len(batch) : SplitExt(batch[i].name) = DocxExt => i \in attempted

(***************************************************************************)
(* Properties of the lazily created directories.                           *)
(***************************************************************************)
TrueMismatch(i) ==
    /\ ImghdrWhat(tree[i].data) /= <<>>
    /\ ~NamesType(SplitExt(tree[i].name), ImghdrWhat(tree[i].data))

\* C11: neither traversal ever fails on a directory that exists already:
\* no os.mkdir raises, and the second and later hidden images and decode
\* failures are handled like the first (every passed hidden image is
\* recorded with its file in "Hidden Images", every passed unreadable file
\* not held by "Search" is listed with its file in "Search/Unreadable").
C11_IdempotentMkdir ==
    /\ pc \notin {"images_raised", "search_raised"}
    /\ pc \in {"images", "images_done"} =>
          \A i \in 1..(pos - 1) :
              TrueMismatch(i) =>
                 /\ hidden_dir
                 /\ Recorded(i)
                 /\ tree[i].name \in DOMAIN hiddenFiles
    /\ pc \in {"search", "search_done"} =>
          \A i \in 1..(pos - 1) :
              Undecodable(tree[i].data) =>
                 /\ unreadable_dir
                 /\ \/ tree[i].name \in DOMAIN searchFiles
                    \/ /\ InSeq(PathOf(i), unreadable_file_contents)
                       /\ tree[i].name \in DOMAIN unreadableFiles
    /\ pc = "images_done" \/ pc = "search_done" => pos = Len(tree) + 1

C11_Witness ==
    \/ /\ pc = "images_done"
       /\ Len(hidden_image_file_paths) >= 2
    \/ /\ pc = "search_done"
       /\ Len(unreadable_file_contents) >= 2

(***************************************************************************)
(* Further properties of Searcher.find_search_term.                        *)
(***************************************************************************)
NameMatches(i) == ReSearch(search_term, tree[i].name)

ContentMatches(i) ==
    ~Undecodable(tree[i].data) /\ ReSearch(search_term, FileContents(tree[i].data))

\* C12: when find_search_term has returned, every entry that matched by
\* name or by content has its destination listed in search_file_paths and
\* a file at it, and every listed path is the destination of an entry that
\* matched.
C12_MatchedIffCopied ==
    pc = "search_done" =>
        /\ \A i \in 1..Len(tree) :
              (NameMatches(i) \/ ContentMatches(i)) =>
                  /\ InSeq(tree[i].name, search_file_paths)
                  /\ tree[i].name \in DOMAIN searchFiles
        /\ \A k \in 1..Len(search_file_paths) :
              \E i \in 1..Len(tree) :
                  /\ NameMatches(i) \/ ContentMatches(i)
                  /\ tree[i].name = search_file_paths[k]

(***************************************************************************)
(* Further properties of Itemizer.itemize.                                 *)
(***************************************************************************)
\* the pass has written a text file for entry i
Wrote(i) == \E k \in 1..Len(written) : written[k].src = i

\* C13 as stated: when itemize has ended, the entries with a text file in
\* Content are exactly those copied to XML whose directory is word.
C13_ContentIffXmlInWord ==
    ItemizeEnded =>
        \A i \in 1..Len(tree) :
            Wrote(i) <=> (i \in Bucket("XML") /\ BaseName(tree[i].dir) = "word")

\* C13, amended: at every point of the pass, the entries with a text file
\* in Content are exactly those copied to XML whose directory is word and
\* whose content is well-formed XML; each such file is named after the
\* entry's name with .xml replaced by .txt, and Content holds nothing else.
C13_ContentIffWellFormedXmlInWord ==
    /\ \A i \in 1..Len(tree) :
          Wrote(i) <=> /\ i \in Bucket("XML")
                       /\ BaseName(tree[i].dir) = "word"
                       /\ ~NotWellFormed(tree[i].data)
    /\ \A k \in 1..Len(written) :
          /\ \E root \in { SubSeq(written[k].name, 1, n) : n \in 0..Len(written[k].name) } :
                /\ written[k].name = root \o TxtExt
                /\ tree[written[k].src].name = root \o XmlExt
          /\ written[k].name \in DOMAIN contentFiles
    /\ DOMAIN contentFiles = { written[k].name : k \in 1..Len(written) }

C13_Witness ==
    /\ pc = "itemize_done"
    /\ \E i, j \in 1..Len(tree) :
          /\ Wrote(i)
          /\ j \in Bucket("XML") /\ BaseName(tree[j].dir) /= "word" /\ ~Wrote(j)

(***************************************************************************)
(* Further properties of the newline heuristic.                            *)
(***************************************************************************)
\* the positions k of text whose characters k, k + 1 are a (lowercase,
\* uppercase) or a (digit, uppercase) pair
PairPositions(text) ==
    { k \in 1..(Len(text) - 1) :
        /\ text[k] \in LowerChars \cup DigitChars
        /\ text[k + 1] \in UpperChars }

\* text from position k on, with one newline after each position of P
RECURSIVE WithBreaks(_, _, _)
WithBreaks(text, P, k) ==
    IF k > Len(text) THEN <<>>
    ELSE <<text[k]>> \o (IF k \in P THEN <<Newline>> ELSE <<>>) \o WithBreaks(text, P, k + 1)

NotNewline(c) == c /= Newline

\* C14: at every point of the loop the text is the input with one newline
\* after the first character of some of its (lowercase, uppercase) and
\* (digit, uppercase) pairs, and nothing else: removing the newlines gives
\* the input back.
C14_OnlyInsertsAtPairs ==
    pc \in {"loop", "written"} =>
        /\ \E P \in SUBSET PairPositions(text_in) : output = WithBreaks(text_in, P, 1)
        /\ SelectSeq(output, NotNewline) = text_in

C14_Witness ==
    /\ pc = "written"
    /\ Len(output) = Len(text_in) + 2

(***************************************************************************)
(* Further properties of ImageFinder.get_hidden_images.                    *)
(***************************************************************************)
\* C15: "Hidden Images" exists exactly when a hidden image has been met:
\* at every point of the traversal, and so when it has returned, the
\* directory exists if and only if some passed entry is a mismatch, which
\* is if and only if the list of hidden images is not empty.
C15_LazyHiddenDir ==
    /\ hidden_dir <=> (\E i \in 1..(pos - 1) : TrueMismatch(i))
    /\ hidden_dir <=> Len(hidden_image_file_paths) > 0

C15_Witness ==
    /\ pc = "images_done"
    /\ hidden_dir
    /\ Len(tree) >= 2
    /\ ~TrueMismatch(1)
    /\ \E i \in 2..Len(tree) : TrueMismatch(i)

(***************************************************************************)
(* Decode failures in Searcher.find_search_term.                           *)
(***************************************************************************)
\* C16: a decode failure is never propagated and never stops the traversal:
\* find_search_term never ends by raising, it returns only past the last
\* entry, every passed entry (before or after a failing one) is in the name
\* matches exactly when its name matches and in the content matches exactly
\* when its decoded content matches, a failing entry is never a content
\* match, and no path is in both the content matches and the unreadable list.
C16_DecodeFailureContained ==
    /\ pc /= "search_raised"
    /\ pc = "search_done" => pos = Len(tree) + 1
    /\ pc \in {"search", "search_done"} =>
          \A i \in 1..(pos - 1) :
              /\ NameMatches(i) <=> InSeq(PathOf(i), found_file_names)
              /\ ContentMatches(i) <=> InSeq(PathOf(i), found_file_contents)
              /\ Undecodable(tree[i].data) => ~InSeq(PathOf(i), found_file_contents)
    /\ \A k \in 1..Len(found_file_contents) :
          ~InSeq(found_file_contents[k], unreadable_file_contents)

C16_Witness ==
    /\ pc = "search_done"
    /\ \E i, j \in 1..Len(tree) :
          /\ i < j
          /\ Undecodable(tree[i].data)
          /\ InSeq(PathOf(i), unreadable_file_contents)
          /\ NameMatches(j)
          /\ InSeq(PathOf(j), found_file_names)
          /\ ContentMatches(j)
          /\ InSeq(PathOf(j), found_file_contents)

====
